---- MODULE Spec2Model ----
(***************************************************************************)
(* Model of src/lib/dexs/index.ts: the DEXS adapter registry and the       *)
(* ParaSwap facade (constructor, handleAPIError, the forwarding methods).  *)
(*                                                                         *)
(* JavaScript values are tagged records [t |-> <type>, ...] so that a      *)
(* string, a number, undefined and null stay distinguishable.  An object   *)
(* whose fields are optional (APIError, an axios error) is a record that   *)
(* has exactly the fields that are present.                                *)
(***************************************************************************)
EXTENDS Integers, Sequences, FiniteSets

VARIABLES
    phase,      \* "new" | "constructed" | "failed" (the constructor threw)
    args,       \* the arguments the constructor was called with
    self,       \* the instance: network, apiURL, web3Provider, ethersProvider, sdk
    ctorError,  \* message of the assertion the constructor failed with
    inflight,   \* per public operation: delegated calls awaiting the sdk
    last        \* the most recent event observed by a caller

vars == <<phase, args, self, ctorError, inflight, last>>

\* ------------------------------------------------------------------ bounds

\* Calls that may be awaiting their delegate at the same time.
MaxInFlight == 2
\* Routes passed to getRateByRoute have 0..MaxRouteLen hops.
MaxRouteLen == 3

\* ------------------------------------------------------- JavaScript values

Str(s) == [t |-> "string", v |-> s]
Undefined == [t |-> "undefined"]
Null == [t |-> "null"]
Obj(props) == [t |-> "object", props |-> props]

\* obj.name for a value obj: a TypeError on null and undefined, the own
\* property of an object, undefined otherwise (a string has no such property).
CanReadProp(obj) == obj.t \notin {"null", "undefined"}
GetProp(obj, name) ==
    IF obj.t = "object" /\ name \in DOMAIN obj.props THEN obj.props[name]
    ELSE Undefined

\* What an operation ends with.
Return(v) == [kind |-> "return", value |-> v]
Throw(name, msg) == [kind |-> "throw", error |-> [name |-> name, message |-> msg]]

\* ----------------------------------------------------------------- registry

DEXS ==
    [uniswap   |-> "UniswapV1",
     uniswapv2 |-> "UniswapV2",
     sushiswap |-> "UniswapV2",
     defiswap  |-> "UniswapV2",
     linkswap  |-> "UniswapV2"]

\* The literal is a plain object: a property read that misses the own keys
\* continues on Object.prototype.
ObjectPrototype ==
    [constructor    |-> "Object",
     toString       |-> "Object.prototype.toString"]

NotFound == "undefined"

\* DEXS[id]
DexLookup(id) ==
    IF id \in DOMAIN DEXS THEN DEXS[id]
    ELSE IF id \in DOMAIN ObjectPrototype THEN ObjectPrototype[id]
    ELSE NotFound

Identifiers ==
    DOMAIN DEXS \cup DOMAIN ObjectPrototype \cup {"nonexistent"}

\* ------------------------------------------------------------- construction

\* The public asynchronous operations of the facade.
Ops ==
    {"getTokens", "getAdapters", "getRateByRoute", "getRate", "buildTx",
     "getTokenTransferProxy", "getAllowances", "getAllowance",
     "approveTokenBulk", "approveToken", "getMarketNames", "getBalance",
     "getBalances"}

API_URL == "https://apiv5.paraswap.io"
\* network: number = 1
Networks == {1}

FetcherNeeded == "at least one fetcher is needed"
NeedsFetcher == "sdk must be initialized with a fetcher"
NeedsProvider == "sdk must be initialized with a provider"

EmptySDK == [methods |-> {}, fetcher |-> "null", contractCaller |-> "null"]

\* The parts of the sdk, by the constructor that contributes them.
constructGetBalances == {"getBalance", "getBalances"}
constructGetTokens == {"getTokens"}
constructGetSpender == {"getSpender"}
constructBuildTx == {"buildTx"}
constructGetAdapters == {"getAdapters"}
constructGetRate == {"getRate", "getRateByRoute"}
AllowanceMethods == {"getAllowance", "getAllowances"}
ApprovalMethods == {"approveToken", "approveTokenBulk"}

constructPartialSDK(fetcher, parts) ==
    [methods |-> UNION parts, fetcher |-> fetcher, contractCaller |-> "null"]

constructSDK(fetcher, contractCaller) ==
    [methods |-> constructGetBalances \cup constructGetTokens
                 \cup constructGetSpender \cup constructBuildTx
                 \cup constructGetAdapters \cup constructGetRate
                 \cup AllowanceMethods \cup ApprovalMethods,
     fetcher |-> fetcher, contractCaller |-> contractCaller]

ResolveFetcherPreferFetch(axios, fetch) ==
    IF fetch THEN "fetch" ELSE IF axios THEN "axios" ELSE "null"

\* const fetcher = axios ? ... : fetch ? ... : null
ResolveFetcher(axios, fetch) ==
    IF axios THEN "axios" ELSE IF fetch THEN "fetch" ELSE "null"

\* if (!web3Provider && !ethersProvider)
NoProvider(web3Provider, ethersProvider) ==
    ~web3Provider /\ ~ethersProvider

ResolveContractCallerPreferWeb3(web3Provider, ethersProvider) ==
    IF web3Provider THEN "web3" ELSE IF ethersProvider THEN "ethers" ELSE "null"

\* const contractCaller = ethersProvider ? ... : web3Provider ? ... : null
ResolveContractCaller(web3Provider, ethersProvider) ==
    IF ethersProvider THEN "ethers" ELSE IF web3Provider THEN "web3" ELSE "null"

Init ==
    /\ phase = "new"
    /\ args = [network |-> 1, apiURL |-> API_URL, web3Provider |-> FALSE,
               ethersProvider |-> FALSE, axios |-> FALSE, fetch |-> FALSE]
    /\ self = [network |-> 1, apiURL |-> API_URL, web3Provider |-> FALSE,
               ethersProvider |-> FALSE, sdk |-> EmptySDK]
    /\ ctorError = ""
    /\ inflight = [m \in Ops |-> 0]
    /\ last = [ev |-> "none", op |-> "none"]

\* new ParaSwap(network, apiURL, web3Provider, ethersProvider, axios, fetch)
Construct(network, web3Provider, ethersProvider, axios, fetch) ==
    /\ phase = "new"
    /\ args' = [network |-> network, apiURL |-> API_URL,
                web3Provider |-> web3Provider, ethersProvider |-> ethersProvider,
                axios |-> axios, fetch |-> fetch]
    /\ LET fetcher == ResolveFetcher(axios, fetch)
           contractCaller == ResolveContractCaller(web3Provider, ethersProvider)
           fields == [network |-> network, apiURL |-> API_URL,
                      web3Provider |-> web3Provider,
                      ethersProvider |-> ethersProvider, sdk |-> EmptySDK]
       IN  IF fetcher = "null"
           THEN /\ phase' = "failed"
                /\ ctorError' = FetcherNeeded
                /\ self' = fields
           ELSE /\ phase' = "constructed"
                /\ ctorError' = ""
                /\ self' =
                     IF NoProvider(web3Provider, ethersProvider)
                     THEN [fields EXCEPT !.sdk =
                             constructPartialSDK(fetcher,
                               {constructGetBalances, constructGetTokens,
                                constructGetSpender, constructBuildTx,
                                constructGetAdapters, constructGetRate})]
                     ELSE IF contractCaller # "null"
                     THEN [fields EXCEPT !.sdk = constructSDK(fetcher, contractCaller)]
                     ELSE fields
    /\ last' = [ev |-> "constructed", op |-> "constructor"]
    /\ UNCHANGED inflight

\* ----------------------------------------------------- error normalization

\* What a delegate may reject with.
NonTransportFailures ==
    {[isAxiosError |-> FALSE, t |-> "string", v |-> "boom"],
     [isAxiosError |-> FALSE, t |-> "Error", v |-> "Invalid DEX list"]}

\* e.response of a transport failure that carries one: status and body.
Responses ==
    {[status |-> 400, data |-> Obj([error |-> Str("bad request")])],
     [status |-> 404, data |-> Obj([detail |-> Str("no error field")])],
     [status |-> 502, data |-> Str("Bad Gateway")],
     [status |-> 500, data |-> Null]}

TransportFailures ==
    {[isAxiosError |-> TRUE, message |-> Str("timeout")]}
    \cup {[isAxiosError |-> TRUE,
           message |-> Str("Request failed"),
           response |-> r] : r \in Responses}

Failures == NonTransportFailures \cup TransportFailures

\* What a delegate may resolve with.
Payloads == {[t |-> "payload", v |-> "p1"], [t |-> "payload", v |-> "p2"]}

\* `${e}`
Stringify(e) ==
    IF e.t = "Error" THEN "Error: " \o e.v ELSE e.v

\* axios.isAxiosError(e)
isAxiosError(e) == e.isAxiosError

handleAPIError(e) ==
    IF ~isAxiosError(e)
    THEN Return([message |-> Str("Unknown error: " \o Stringify(e))])
    ELSE IF "response" \notin DOMAIN e
    THEN Return([message |-> e.message])
    ELSE LET status == e.response.status
             data == e.response.data
         IN  IF ~CanReadProp(data)
             THEN Throw("TypeError", "Cannot read properties of null")
             ELSE Return([status |-> status,
                          message |-> GetProp(data, "error"),
                          data |-> data])

\* ------------------------------------------------------------- forwarding

RECURSIVE SumOver(_, _)
SumOver(f, S) ==
    IF S = {} THEN 0
    ELSE LET x == CHOOSE y \in S : TRUE IN f[x] + SumOver(f, S \ {x})

\* Calls awaiting their delegate.
InFlightCount == SumOver(inflight, Ops)

HasCapabilityAlways(method) == TRUE

\* assert(this.sdk.<method>, ...): the capability is present on the sdk
HasCapability(method) == method \in self.sdk.methods

RouteTooShortOffByOne(routeLen) == routeLen < 1

\* if (route.length < 2)
RouteTooShort(routeLen) == routeLen < 2

\* The part of a forwarding method up to its await: the assertion, then the
\* call of the sdk method inside try.
Forward(op, method, assertMessage) ==
    /\ phase = "constructed"
    /\ IF ~HasCapability(method)
       THEN /\ last' = [ev |-> "threw", op |-> op, delegated |-> FALSE,
                        outcome |-> Throw("AssertionError", assertMessage)]
            /\ UNCHANGED inflight
       ELSE /\ InFlightCount < MaxInFlight
            /\ inflight' = [inflight EXCEPT ![op] = @ + 1]
            /\ last' = [ev |-> "delegated", op |-> op, delegated |-> TRUE,
                        method |-> method]
    /\ UNCHANGED <<phase, args, self, ctorError>>

\* return await this.sdk.<method>(...): the delegate resolved
DelegateResolves(op, payload) ==
    /\ phase = "constructed"
    /\ inflight[op] > 0
    /\ inflight' = [inflight EXCEPT ![op] = @ - 1]
    /\ last' = [ev |-> "settled", op |-> op, delegated |-> TRUE,
                rejected |-> FALSE, settledWith |-> payload,
                outcome |-> Return(payload)]
    /\ UNCHANGED <<phase, args, self, ctorError>>

\* catch (e) { return this.handleAPIError(e); }: the delegate rejected
DelegateRejects(op, e) ==
    /\ phase = "constructed"
    /\ inflight[op] > 0
    /\ inflight' = [inflight EXCEPT ![op] = @ - 1]
    /\ last' = [ev |-> "settled", op |-> op, delegated |-> TRUE,
                rejected |-> TRUE, settledWith |-> e,
                outcome |-> handleAPIError(e)]
    /\ UNCHANGED <<phase, args, self, ctorError>>

ProviderArgs == {"undefined", "web3"}

setWeb3ProviderReinit(web3Provider) ==
    /\ phase = "constructed"
    /\ self' = [self EXCEPT !.web3Provider = (web3Provider # "undefined"),
                            !.sdk = constructSDK(self.sdk.fetcher, "web3")]
    /\ last' = [ev |-> "returned", op |-> "setWeb3Provider", delegated |-> FALSE,
                outcome |-> Return([t |-> "this"])]
    /\ UNCHANGED <<phase, args, ctorError, inflight>>

setWeb3Provider(web3Provider) ==
    /\ phase = "constructed"
    /\ last' = [ev |-> "returned", op |-> "setWeb3Provider", delegated |-> FALSE,
                outcome |-> Return([t |-> "this"])]
    /\ UNCHANGED <<phase, args, self, ctorError, inflight>>

getTokens ==
    /\ phase = "constructed"
    /\ Forward("getTokens", "getTokens", NeedsFetcher)

getAdapters ==
    /\ phase = "constructed"
    /\ Forward("getAdapters", "getAdapters", NeedsFetcher)

getRateByRoute(routeLen) ==
    /\ phase = "constructed"
    /\ IF ~HasCapability("getRateByRoute")
       THEN /\ last' = [ev |-> "threw", op |-> "getRateByRoute", delegated |-> FALSE,
                        routeLen |-> routeLen,
                        outcome |-> Throw("AssertionError", NeedsFetcher)]
            /\ UNCHANGED inflight
       ELSE IF RouteTooShort(routeLen)
       THEN /\ last' = [ev |-> "returned", op |-> "getRateByRoute",
                        delegated |-> FALSE, routeLen |-> routeLen,
                        outcome |-> Return([message |-> Str("Invalid Route")])]
            /\ UNCHANGED inflight
       ELSE /\ InFlightCount < MaxInFlight
            /\ inflight' = [inflight EXCEPT !["getRateByRoute"] = @ + 1]
            /\ last' = [ev |-> "delegated", op |-> "getRateByRoute",
                        delegated |-> TRUE, routeLen |-> routeLen,
                        method |-> "getRateByRoute"]
    /\ UNCHANGED <<phase, args, self, ctorError>>

getRate ==
    /\ phase = "constructed"
    /\ Forward("getRate", "getRate", NeedsFetcher)

buildTx ==
    /\ phase = "constructed"
    /\ Forward("buildTx", "buildTx", NeedsFetcher)

getTokenTransferProxy(_provider) ==
    /\ phase = "constructed"
    /\ Forward("getTokenTransferProxy", "getSpender", NeedsFetcher)

getAllowances ==
    /\ phase = "constructed"
    /\ Forward("getAllowances", "getAllowances", NeedsFetcher)

getAllowance ==
    /\ phase = "constructed"
    /\ Forward("getAllowance", "getAllowance", NeedsFetcher)

approveTokenBulk(_provider) ==
    /\ phase = "constructed"
    /\ Forward("approveTokenBulk", "approveTokenBulk", NeedsProvider)

approveToken(_provider) ==
    /\ phase = "constructed"
    /\ Forward("approveToken", "approveToken", NeedsProvider)

getMarketNames ==
    /\ phase = "constructed"
    /\ Forward("getMarketNames", "getAdapters", NeedsFetcher)

getBalance ==
    /\ phase = "constructed"
    /\ Forward("getBalance", "getBalance", NeedsFetcher)

getBalances ==
    /\ phase = "constructed"
    /\ Forward("getBalances", "getBalances", NeedsFetcher)

\* A caller reads DEXS[id].
ReadDEXS(id) ==
    /\ last' = [ev |-> "lookup", op |-> "DEXS", id |-> id, result |-> DexLookup(id)]
    /\ UNCHANGED <<phase, args, self, ctorError, inflight>>

Next ==
    \/ \E network \in Networks, web3Provider \in BOOLEAN, ethersProvider \in BOOLEAN,
          axios \in BOOLEAN, fetch \in BOOLEAN :
            Construct(network, web3Provider, ethersProvider, axios, fetch)
    \/ \E p \in ProviderArgs : setWeb3Provider(p)
    \/ getTokens
    \/ getAdapters
    \/ \E routeLen \in 0..MaxRouteLen : getRateByRoute(routeLen)
    \/ getRate
    \/ buildTx
    \/ \E p \in ProviderArgs : getTokenTransferProxy(p)
    \/ getAllowances
    \/ getAllowance
    \/ \E p \in ProviderArgs : approveTokenBulk(p)
    \/ \E p \in ProviderArgs : approveToken(p)
    \/ getMarketNames
    \/ getBalance
    \/ getBalances
    \/ \E op \in Ops, payload \in Payloads : DelegateResolves(op, payload)
    \/ \E op \in Ops, e \in Failures : DelegateRejects(op, e)
    \/ \E id \in Identifiers : ReadDEXS(id)

Spec == Init /\ [][Next]_vars

\* ------------------------------------------------------------------ claims

\* The capability names the claims speak of.
ReadOnlyMethods ==
    {"getTokens", "getBalance", "getBalances", "getSpender", "buildTx",
     "getAdapters", "getRate", "getRateByRoute"}
ProviderOps == {"getAllowance", "getAllowances", "approveToken", "approveTokenBulk"}

Constructed == phase = "constructed"
NoProviderSupplied == ~args.web3Provider /\ ~args.ethersProvider
\* The last event is a public operation that has ended.
Completed == last.op \in Ops /\ last.ev \in {"settled", "returned", "threw"}
\* The last event is an operation whose delegate rejected.
RejectedCall == last.ev = "settled" /\ last.rejected
IsPreconditionThrow(o) ==
    o.kind = "throw" /\ o.error.name = "AssertionError"
IsNormalizedError(v) ==
    "message" \in DOMAIN v /\ DOMAIN v \subseteq {"message", "status", "data"}

\* C1: whenever the delegate of a forwarding operation rejects with e, the
\* operation resolves to { message: "Unknown error: " + string(e) } for a
\* non-transport e, { message: e.message } (no status, no data) for a
\* transport error without response, and { status, message: data.error,
\* data } for a transport error with a response.
C1_RejectionResolvesToMappedError ==
    RejectedCall =>
        LET e == last.settledWith
        IN  last.outcome =
              Return(IF ~e.isAxiosError
                     THEN [message |-> Str("Unknown error: " \o Stringify(e))]
                     ELSE IF "response" \notin DOMAIN e
                     THEN [message |-> e.message]
                     ELSE [status |-> e.response.status,
                           message |-> GetProp(e.response.data, "error"),
                           data |-> e.response.data])

\* C2: every public operation ends with the delegate's value unchanged, with
\* a Normalized Error value, or with the precondition assertion thrown before
\* any delegation; no other exception escapes, whatever the delegate rejects
\* with.
C2_OnlyThreeOutcomes ==
    Completed =>
        \/ /\ last.ev = "settled"
           /\ ~last.rejected
           /\ last.outcome = Return(last.settledWith)
        \/ /\ last.outcome.kind = "return"
           /\ IsNormalizedError(last.outcome.value)
        \/ /\ last.ev = "threw"
           /\ IsPreconditionThrow(last.outcome)
           /\ ~last.delegated

C4_ProviderFacadeIsFull ==
    (Constructed /\ ~NoProviderSupplied) =>
        /\ self.sdk.contractCaller = IF args.ethersProvider THEN "ethers" ELSE "web3"
        /\ self.sdk.methods = ReadOnlyMethods \cup ProviderOps

C4_Witness ==
    /\ Constructed
    /\ args.web3Provider
    /\ args.ethersProvider
    /\ self.sdk.contractCaller = "ethers"

\* C5: construction resolves the axios transport whenever it is supplied and
\* the fetch transport otherwise; with neither it fails with 'at least one
\* fetcher is needed', whatever providers are supplied, and no capability set
\* is assembled.
C5_ExactlyOneTransportOrFailure ==
    /\ Constructed =>
         /\ args.axios \/ args.fetch
         /\ self.sdk.fetcher = IF args.axios THEN "axios" ELSE "fetch"
    /\ (phase # "new" /\ ~args.axios /\ ~args.fetch) =>
         /\ phase = "failed"
         /\ ctorError = "at least one fetcher is needed"
         /\ self.sdk.methods = {}
    /\ phase = "failed" => (~args.axios /\ ~args.fetch /\ last.op \notin Ops)

C5_Witness ==
    /\ phase = "failed"
    /\ args.web3Provider
    /\ args.ethersProvider
    /\ ctorError = "at least one fetcher is needed"

\* What a getRateByRoute call ended with, by the length of its route.
C6_LastCall ==
    (Constructed /\ last.op = "getRateByRoute" /\ last.ev # "settled") =>
        IF last.routeLen < 2
        THEN /\ last.ev = "returned"
             /\ last.outcome = Return([message |-> Str("Invalid Route")])
             /\ ~last.delegated
        ELSE /\ last.ev = "delegated"
             /\ last.method = "getRateByRoute"

\* What a getRateByRoute call did to the delegate's pending calls.
C6_Step ==
    (last'.op = "getRateByRoute" /\ last'.ev # "settled") =>
        IF last'.routeLen < 2
        THEN inflight' = inflight
        ELSE inflight' = [inflight EXCEPT !["getRateByRoute"] = @ + 1]

\* C6: on a constructed facade getRateByRoute with a route of length 0 or 1
\* returns { message: "Invalid Route" } without calling the delegate, and
\* with a route of length 2 or more it calls the delegate.
C6_ShortRouteIsRejectedLocally == [](C6_LastCall) /\ [][C6_Step]_vars

C6_Witness ==
    /\ Constructed
    /\ last.op = "getRateByRoute"
    /\ last.ev = "returned"
    /\ last.routeLen = 1
    /\ InFlightCount > 0

\* C7: whenever a delegated call rejects, the value the operation returns has
\* a message field holding a string.
C7_RejectionYieldsStringMessage ==
    RejectedCall =>
        /\ last.outcome.kind = "return"
        /\ "message" \in DOMAIN last.outcome.value
        /\ last.outcome.value.message.t = "string"

\* C8: the precondition error of an operation names the collaborator that is
\* missing: a provider for getAllowance, getAllowances, approveToken and
\* approveTokenBulk, a fetcher for every other operation.
C8_PreconditionNamesMissingCollaborator ==
    (last.op \in Ops /\ last.ev = "threw") =>
        last.outcome.error.message =
            IF last.op \in ProviderOps
            THEN "sdk must be initialized with a provider"
            ELSE "sdk must be initialized with a fetcher"

\* Whether a call throws its precondition or is delegated is decided by the
\* constructor's arguments alone.
C9_OutcomeClass ==
    (Constructed /\ last.op \in Ops) =>
        (last.ev = "threw" <=> (last.op \in ProviderOps /\ NoProviderSupplied))

\* C9: once the constructor has returned, no operation, in any order or
\* interleaving and whatever its outcome, changes the capability set or the
\* client configuration, so whether a call throws its precondition or is
\* delegated does not depend on the calls before or alongside it.
C9_CapabilitySetIsFixed ==
    /\ [](C9_OutcomeClass)
    /\ [][Constructed => (self' = self /\ phase' = phase)]_vars

C9_Witness ==
    /\ Constructed
    /\ last.op = "setWeb3Provider"
    /\ InFlightCount >= 2
    /\ NoProviderSupplied

\* C10: DEXS has exactly the keys uniswap, uniswapv2, sushiswap, defiswap and
\* linkswap; 'uniswap' reads the v1 adapter, the other four read one and the
\* same v2 adapter, which differs from the v1 adapter, and any other
\* identifier reads not-found.
C10_RegistryLookup ==
    /\ DOMAIN DEXS = {"uniswap", "uniswapv2", "sushiswap", "defiswap", "linkswap"}
    /\ last.ev = "lookup" =>
         /\ last.id = "uniswap" => last.result = "UniswapV1"
         /\ last.id \in {"uniswapv2", "sushiswap", "defiswap", "linkswap"} =>
              last.result = "UniswapV2"
         /\ last.id \notin {"uniswap", "uniswapv2", "sushiswap", "defiswap",
                            "linkswap"} => last.result = NotFound

====
